---- MODULE Spec2Model ----
(***************************************************************************)
(* A model of eispy/eis_prep.py: the correction stages applied to the      *)
(* channel records of an EIS level-0 exposure, the detector geometry       *)
(* resolver, the defect-map compositor and the pixel-map fetcher with its  *)
(* process-wide memo.                                                      *)
(*                                                                         *)
(* Arrays of the channel records are functions over their index tuples.    *)
(* A calibration file (a 512 x 1024 binary array) is kept as the set of    *)
(* its coordinates that hold 1.  Dates are <<year, month, day>>.           *)
(***************************************************************************)
EXTENDS Integers, Sequences, FiniteSets, TLC

VARIABLES
    links,      \* the archive: per pixel type, the hrefs of its index page
    served,     \* the archive: the URLs that answer 200
    dp_data,    \* the archive: dusty_pixels.sav, [width, ones]
    build,      \* the numpy of the build: [legacy_mask], see MaskAssign
    pix_memo,   \* __pix_memo__: URL -> calibration array
    requests,   \* every network request issued so far, in order
    calls,      \* history: one record per finished call of the fetcher
    maps,       \* history: one record per finished call of the compositor
    geom,       \* history: the last call of the resolver, none before the first
    meta,       \* the observation metadata
    chans,      \* the channel records: idx -> [data, err]
    last        \* history: the last stage run, with the arrays it started from

vars == <<links, served, dp_data, build, pix_memo, requests, calls, maps, geom, meta, chans, last>>

archive == <<links, served, dp_data, build>>

\* F applied to the value of v, which is computed once
Eval(v, F(_)) == CHOOSE r \in {F(x) : x \in {v}} : TRUE

(***************************************************************************)
(* Module constants                                                        *)
(***************************************************************************)
missing == -100

darts == "http://darts.jaxa.jp/pub/ssw/solarb/eis/data/cal/"

\* the value a float array holds where None was assigned to it
NaN == -1

\* Python's None, and a 2-D float array, as values of one shape: an array
\* holds 1 at the coordinates in ones and fill everywhere else.
None == [kind |-> "None", fill |-> 0, ones |-> {}]

Array(ones) == [kind |-> "ndarray", fill |-> 0, ones |-> ones]

\* np.zeros((512, 1024))
zero_arr == Array({})

(***************************************************************************)
(* Dates: strftime, strptime, subtraction                                  *)
(***************************************************************************)
MonthAbbr == <<"jan", "feb", "mar", "apr", "may", "jun",
               "jul", "aug", "sep", "oct", "nov", "dec">>

Pad2(n) == IF n < 10 THEN "0" \o ToString(n) ELSE ToString(n)

\* date.strftime("%Y-%m-%d")
strftime_Ymd(date) == ToString(date[1]) \o "-" \o Pad2(date[2]) \o "-" \o Pad2(date[3])

\* date.strftime("%d%b%y").lower() under the en_GB locale
strftime_dby(date) == Pad2(date[3]) \o MonthAbbr[date[2]] \o Pad2(date[1] % 100)

IsLeap(y) == (y % 4 = 0) /\ ((y % 100 # 0) \/ (y % 400 = 0))

DaysInMonth(y, m) ==
    IF m = 2 THEN (IF IsLeap(y) THEN 29 ELSE 28)
    ELSE IF m \in {4, 6, 9, 11} THEN 30 ELSE 31

RECURSIVE DaysBeforeMonth(_, _)
DaysBeforeMonth(y, m) ==
    IF m = 1 THEN 0 ELSE DaysBeforeMonth(y, m - 1) + DaysInMonth(y, m - 1)

\* the proleptic Gregorian ordinal of a date: what datetime subtraction counts
Ordinal(date) ==
    LET y == date[1] - 1
    IN  y * 365 + (y \div 4) - (y \div 100) + (y \div 400)
          + DaysBeforeMonth(date[1], date[2]) + date[3]

\* d1 <= d2 on datetimes at midnight
DateLE(d1, d2) == Ordinal(d1) <= Ordinal(d2)

\* the sort key of line 247: d - date if d > date else date - d, in days
SortKey(d, date) ==
    IF Ordinal(d) > Ordinal(date) THEN Ordinal(d) - Ordinal(date)
    ELSE Ordinal(date) - Ordinal(d)

(***************************************************************************)
(* The bounded universe of inputs                                          *)
(***************************************************************************)
\* dates the archive may list
CalDates == {<<2007, 12, 30>>, <<2008, 1, 17>>, <<2008, 1, 19>>, <<2008, 1, 21>>}

\* observation dates
ObsDates == {<<2008, 1, 18>>, <<2008, 1, 19>>, <<2015, 1, 1>>}

AllDates == CalDates \cup ObsDates

PixTypes == {"hp", "wp"}

Detectors == {"a", "b"}

\* the longest archive listing, the most calls of the fetcher in one run
MaxListing == 3

MaxCalls == 2

(***************************************************************************)
(* _construct_hot_warm_pix_url                                             *)
(***************************************************************************)
construct_hot_warm_pix_url(date, pix_type, detector, top_bot, left_right) ==
    LET head == darts \o pix_type \o "/" \o strftime_Ymd(date) \o "/"
                  \o "coords_" \o detector \o "_" \o left_right \o "_"
        datestr == strftime_dby(date)
    IN  IF pix_type = "wp"
        THEN head \o top_bot \o "_" \o datestr \o "_100s.sav"
        ELSE head \o datestr
               \o (IF detector # "middle" THEN "_" \o top_bot ELSE "")
               \o ".sav"

(***************************************************************************)
(* The archive: index pages and calibration files                          *)
(***************************************************************************)
\* the links of an index page that precede its date entries (sort links, parent)
HeaderLinks == <<"?C=N;O=D", "?C=M;O=A", "?C=S;O=A", "?C=D;O=A", "/pub/ssw/solarb/eis/data/">>

Href(date) == strftime_Ymd(date) \o "/"

\* dt.datetime.strptime(s, '%Y-%m-%d/')
strptime_Ymd(s) == CHOOSE d \in AllDates : Href(d) = s

IndexPage(dates) == HeaderLinks \o [i \in 1..Len(dates) |-> Href(dates[i])]

\* the request that reads an index page, a probe of a file, a download of it
IndexRequest(pix_type) == [op |-> "urlopen", url |-> darts \o pix_type \o "/"]

ProbeRequest(url) == [op |-> "urlopen", url |-> url]

FetchRequest(url) == [op |-> "urlretrieve", url |-> url]

\* readsav(file).ccd_data of a calibration file: each file marks one pixel of
\* its own, set by its date (row: day of month, column: month), and the corner
\* pixels of its quadrant
ccd_data(date) ==
    Array({<<date[3], date[2]>>, <<0, 0>>, <<511, 1023>>})

(***************************************************************************)
(* _get_cal_dates                                                          *)
(***************************************************************************)
get_cal_dates(pix_type) ==
    LET date_str == links[pix_type]
        tail == SubSeq(date_str, 6, Len(date_str))
    IN  [i \in 1..Len(tail) |-> strptime_Ymd(tail[i])]

(***************************************************************************)
(* list.sort(key=...): a stable sort                                       *)
(***************************************************************************)
\* a sort that is not stable: d placed before the elements whose key equals its own
InsertBeforeEqual(sorted, d, date) ==
    LET n == Cardinality({i \in 1..Len(sorted) : SortKey(sorted[i], date) < SortKey(d, date)})
    IN  SubSeq(sorted, 1, n) \o <<d>> \o SubSeq(sorted, n + 1, Len(sorted))

\* d placed after every element of the sorted list whose key is <= its own
InsertByKey(sorted, d, date) ==
    LET n == Cardinality({i \in 1..Len(sorted) : SortKey(sorted[i], date) <= SortKey(d, date)})
    IN  SubSeq(sorted, 1, n) \o <<d>> \o SubSeq(sorted, n + 1, Len(sorted))

RECURSIVE SortFrom(_, _, _, _)
SortFrom(dates, i, sorted, date) ==
    IF i > Len(dates) THEN sorted
    ELSE SortFrom(dates, i + 1, InsertByKey(sorted, dates[i], date), date)

sort_by_distance(dates, date) == SortFrom(dates, 1, <<>>, date)

(***************************************************************************)
(* _try_download_nearest_cal                                               *)
(***************************************************************************)
\* the loop of lines 249-258 from position i: the requests it issues, the
\* array it returns (None when the list is exhausted) and the date that answered
RECURSIVE ProbeLoop(_, _, _, _, _, _, _)
ProbeLoop(dates, i, pix_type, detector, top_bot, left_right, reqs) ==
    IF i > Len(dates) THEN [reqs |-> reqs, ret |-> None, found |-> FALSE]
    ELSE LET url == construct_hot_warm_pix_url(dates[i], pix_type, detector,
                                               top_bot, left_right)
         IN  IF url \in served
             THEN [reqs  |-> reqs \o <<ProbeRequest(url), FetchRequest(url)>>,
                   ret   |-> ccd_data(dates[i]),
                   found |-> TRUE]
             ELSE ProbeLoop(dates, i + 1, pix_type, detector, top_bot, left_right,
                            reqs \o <<ProbeRequest(url)>>)

\* the fetcher with line 257 left out: the array is returned but never stored
try_download_never_stores(memo, date, pix_type, detector, top_bot, left_right) ==
    LET key == construct_hot_warm_pix_url(date, pix_type, detector, top_bot, left_right)
    IN  IF key \in DOMAIN memo
        THEN [ret |-> memo[key], memo |-> memo, reqs |-> <<>>, hit |-> TRUE]
        ELSE Eval(sort_by_distance(get_cal_dates(pix_type), date), LAMBDA dates :
             Eval(ProbeLoop(dates, 1, pix_type, detector, top_bot, left_right,
                            <<IndexRequest(pix_type)>>), LAMBDA loop :
                [ret |-> loop.ret, memo |-> memo, reqs |-> loop.reqs, hit |-> FALSE]))

\* One call: what it returns, the memo it leaves and the requests it issued.
try_download_nearest_cal(memo, date, pix_type, detector, top_bot, left_right) ==
    LET key == construct_hot_warm_pix_url(date, pix_type, detector, top_bot, left_right)
    IN  IF key \in DOMAIN memo
        THEN [ret |-> memo[key], memo |-> memo, reqs |-> <<>>, hit |-> TRUE]
        ELSE Eval(sort_by_distance(get_cal_dates(pix_type), date), LAMBDA dates :
             Eval(ProbeLoop(dates, 1, pix_type, detector, top_bot, left_right,
                            <<IndexRequest(pix_type)>>), LAMBDA loop :
                [ret  |-> loop.ret,
                 memo |-> IF loop.found
                          THEN [k \in DOMAIN memo \cup {key} |->
                                   IF k = key THEN loop.ret ELSE memo[k]]
                          ELSE memo,
                 reqs |-> loop.reqs,
                 hit  |-> FALSE]))

(***************************************************************************)
(* _calculate_detectors                                                    *)
(***************************************************************************)
\* the resolver with the off-by-one the comment of line 309 warns of: a window
\* that ends on column 1024 counted as left
calculate_detectors_end_inclusive(date, y_window_start, n_y_pixels, x_start, x_width) ==
    LET top_bot ==
            IF DateLE(date, <<2008, 1, 18>>) THEN "middle"
            ELSE IF y_window_start >= 512 THEN "top"
            ELSE IF y_window_start + n_y_pixels <= 512 THEN "bottom"
            ELSE "both"
        left_right ==
            IF x_start >= 1024 THEN "right"
            ELSE IF (x_start + x_width) <= 1024 THEN "left"
            ELSE "both"
    IN  <<top_bot, left_right>>

calculate_detectors(date, y_window_start, n_y_pixels, x_start, x_width) ==
    LET top_bot ==
            IF DateLE(date, <<2008, 1, 18>>) THEN "middle"
            ELSE IF y_window_start >= 512 THEN "top"
            ELSE IF y_window_start + n_y_pixels <= 512 THEN "bottom"
            ELSE "both"
        left_right ==
            IF x_start >= 1024 THEN "right"
            ELSE IF (x_start + x_width) < 1024 THEN "left"
            ELSE "both"
    IN  <<top_bot, left_right>>

(***************************************************************************)
(* _download_calibration_data                                              *)
(***************************************************************************)
\* the (vert, horiz) pairs in the order the two nested loops visit them
QuadrantPairs(top_bot, left_right) ==
    LET tb_tuple == IF top_bot = "both" THEN <<"top", "bottom">> ELSE <<top_bot>>
        lr_tuple == IF left_right = "both" THEN <<"left", "right">> ELSE <<left_right>>
    IN  [i \in 1..(Len(tb_tuple) * Len(lr_tuple)) |->
            <<tb_tuple[((i - 1) \div Len(lr_tuple)) + 1],
              lr_tuple[((i - 1) % Len(lr_tuple)) + 1]>>]

RECURSIVE DownloadFrom(_, _, _, _, _, _, _, _)
DownloadFrom(pairs, i, memo, retfiles, reqs, date, pix_type, detector) ==
    IF i > Len(pairs) THEN [retfiles |-> retfiles, memo |-> memo, reqs |-> reqs]
    ELSE LET key == pairs[i][1] \o pairs[i][2]
         IN  Eval(try_download_nearest_cal(memo, date, pix_type, detector,
                                           pairs[i][1], pairs[i][2]), LAMBDA arr :
             Eval([k \in DOMAIN retfiles \cup {key} |->
                      IF k = key THEN arr.ret ELSE retfiles[k]], LAMBDA updated :
             Eval(reqs \o arr.reqs, LAMBDA issued :
                DownloadFrom(pairs, i + 1, arr.memo, updated, issued,
                             date, pix_type, detector))))

download_calibration_data(memo, date, pix_type, detector, top_bot, left_right) ==
    DownloadFrom(QuadrantPairs(top_bot, left_right), 1, memo, <<>>, <<>>,
                 date, pix_type, detector)

(***************************************************************************)
(* _get_pixel_map                                                          *)
(***************************************************************************)
Min(a, b) == IF a < b THEN a ELSE b

\* the length of the slice [lo:hi] of an axis of length n (lo, hi >= 0)
SliceLen(lo, hi, n) ==
    IF Min(hi, n) > Min(lo, n) THEN Min(hi, n) - Min(lo, n) ELSE 0

\* arrays.get(key, zero_arr)
DictGet(arrays, key, default) ==
    IF key \in DOMAIN arrays THEN arrays[key] ELSE default

\* glued_array[quadrant] = value: a float array takes None as NaN throughout
Assigned(value) ==
    IF value.kind = "None" THEN [kind |-> "ndarray", fill |-> NaN, ones |-> {}]
    ELSE value

\* the canvas after the four assignments of lines 331-334, by quadrant
glued_array(arrays) ==
    [q \in {"topleft", "bottomright", "bottomleft", "topright"} |->
        Assigned(DictGet(arrays, q, zero_arr))]

ValueAt(arr, r, c) == IF <<r, c>> \in arr.ones THEN 1 ELSE arr.fill

\* glued_array[r, c] for 0 <= r < 1024, 0 <= c < 2048
CanvasAt(glued, r, c) ==
    LET q == (IF r < 512 THEN "top" ELSE "bottom")
               \o (IF c < 1024 THEN "left" ELSE "right")
    IN  ValueAt(glued[q], r % 512, c % 1024)

\* glued_array[y_lo:y_hi, x_lo:x_hi]: its shape and its entries
Crop(glued, y_lo, y_hi, x_lo, x_hi) ==
    LET nr == SliceLen(y_lo, y_hi, 1024)
        nc == SliceLen(x_lo, x_hi, 2048)
    IN  [shape |-> <<nr, nc>>,
         val   |-> [rc \in (0..(nr - 1)) \X (0..(nc - 1)) |->
                       CanvasAt(glued, y_lo + rc[1], x_lo + rc[2])]]

get_pixel_map(memo, date, pix_type, detector, y_window, x_window) ==
    LET y_window_start == y_window[1]
        x_start    == x_window[1] % 2048
        n_y_pixels == y_window[2] - y_window[1]
        x_width    == x_window[2] - x_window[1]
        detector_areas == calculate_detectors(date, y_window_start, n_y_pixels,
                                              x_start, x_width)
    IN  Eval(download_calibration_data(memo, date, pix_type, detector,
                                       detector_areas[1], detector_areas[2]),
             LAMBDA arrays :
        Eval(glued_array(arrays.retfiles),
             LAMBDA glued :
                [ret    |-> Crop(glued, y_window_start, y_window[2],
                                 x_start, x_window[2] % 2048),
                 memo   |-> arrays.memo,
                 reqs   |-> arrays.reqs,
                 areas  |-> detector_areas,
                 arrays |-> arrays.retfiles,
                 glued  |-> glued]))

(***************************************************************************)
(* Channel records                                                         *)
(*                                                                         *)
(* A 3-D array is [shape |-> <<n_exposures, n_rows, n_columns>>, val |-> a  *)
(* function over its index tuples <<e, r, c>>].  A channel record is       *)
(* [data, err, index].                                                     *)
(***************************************************************************)
Coords(shape) == (0..(shape[1] - 1)) \X (0..(shape[2] - 1)) \X (0..(shape[3] - 1))

Size(shape) == shape[1] * shape[2] * shape[3]

\* the k-th smallest value (k = 1 is the least) among the entries of val at
\* the index tuples in part: entry k of the entries sorted ascending
KthSmallest(val, part, k) ==
    CHOOSE v \in {val[p] : p \in part} :
        /\ Cardinality({p \in part : val[p] < v}) < k
        /\ k <= Cardinality({p \in part : val[p] <= v})

\* twice np.median of the n smallest entries of val at the index tuples in part
\* (n >= 1): the middle entry, or the mean of the two middle entries
MedianTwice(val, part, n) ==
    IF n % 2 = 1
    THEN 2 * KthSmallest(val, part, (n + 1) \div 2)
    ELSE KthSmallest(val, part, n \div 2) + KthSmallest(val, part, (n \div 2) + 1)

(***************************************************************************)
(* _remove_zeros_saturated                                                 *)
(***************************************************************************)
\* the stage without lines 63-64: saturated pixels are left as they are
remove_zeros_only(data_and_errors) ==
    [i \in DOMAIN data_and_errors |->
        LET ch == data_and_errors[i]
        IN  Eval({p \in DOMAIN ch.data.val : ch.data.val[p] <= 0}, LAMBDA zeros :
            [data  |-> [shape |-> ch.data.shape,
                        val   |-> [p \in DOMAIN ch.data.val |->
                                      IF p \in zeros THEN 0 ELSE ch.data.val[p]]],
             err   |-> [shape |-> ch.err.shape,
                        val   |-> [p \in DOMAIN ch.err.val |->
                                      IF p \in zeros THEN missing ELSE ch.err.val[p]]],
             index |-> ch.index])]

remove_zeros_saturated(data_and_errors) ==
    [i \in DOMAIN data_and_errors |->
        LET ch        == data_and_errors[i]
            saturated == {p \in DOMAIN ch.data.val : ch.data.val[p] >= 16383}
        IN  Eval({p \in DOMAIN ch.data.val : ch.data.val[p] <= 0} \cup saturated,
                 LAMBDA zeros :
            [data  |-> [shape |-> ch.data.shape,
                        val   |-> [p \in DOMAIN ch.data.val |->
                                      IF p \in zeros THEN 0 ELSE ch.data.val[p]]],
             err   |-> [shape |-> ch.err.shape,
                        val   |-> [p \in DOMAIN ch.err.val |->
                                      IF p \in zeros THEN missing ELSE ch.err.val[p]]],
             index |-> ch.index])]

(***************************************************************************)
(* _remove_dark_current                                                    *)
(***************************************************************************)
\* twice the pedestal _remove_dark_current_full_ccd subtracts
full_ccd_pedestal_twice(data, mt, window) ==
    LET ccd_x_start == mt.TDETX[window]
        pixels == IF ccd_x_start = 1024 THEN <<944, 989>>
                  ELSE IF ccd_x_start = 3072 THEN <<926, 971>>
                  ELSE <<39, 84>>
        quiet  == {p \in DOMAIN data.val : pixels[1] <= p[3] /\ p[3] < pixels[2]}
    IN  MedianTwice(data.val, quiet, Cardinality(quiet))

\* int(0.02 * n) for the array sizes of the model
LowCount(n) == (2 * n) \div 100

\* twice the pedestal _remove_dark_current_part_ccd subtracts
part_ccd_pedestal_twice(data) ==
    MedianTwice(data.val, DOMAIN data.val, LowCount(Size(data.shape)))

\* twice the pedestal of channel ch
pedestal_twice(mt, ch) ==
    IF mt.TDETXW[ch.index] = 1024
    THEN full_ccd_pedestal_twice(ch.data, mt, ch.index)
    ELSE part_ccd_pedestal_twice(ch.data)

\* data -= pedestal, then, unless retain, lines 95-97
subtract_and_floor(ch, pedestal, retain) ==
    Eval([p \in DOMAIN ch.data.val |-> ch.data.val[p] - pedestal], LAMBDA subtracted :
    Eval({p \in DOMAIN subtracted : subtracted[p] <= 0}, LAMBDA negatives :
        IF retain
        THEN [data  |-> [shape |-> ch.data.shape, val |-> subtracted],
              err   |-> ch.err,
              index |-> ch.index]
        ELSE [data  |-> [shape |-> ch.data.shape,
                         val   |-> [p \in DOMAIN subtracted |->
                                       IF p \in negatives THEN 0 ELSE subtracted[p]]],
              err   |-> [shape |-> ch.err.shape,
                         val   |-> [p \in DOMAIN ch.err.val |->
                                       IF p \in negatives THEN missing
                                       ELSE ch.err.val[p]]],
              index |-> ch.index]))

remove_dark_current(mt, data_and_errors, retain) ==
    [i \in DOMAIN data_and_errors |->
        Eval(pedestal_twice(mt, data_and_errors[i]) \div 2, LAMBDA pedestal :
            subtract_and_floor(data_and_errors[i], pedestal, retain))]

(***************************************************************************)
(* _remove_cosmic_rays                                                     *)
(***************************************************************************)
\* cosmics[i] is what detect_cosmics answers for the slices of channel i,
\* stacked: [mask |-> the index tuples it flags, clean |-> the cleaned values].
\* Line 144 binds the stack of cleaned slices to a local name: the data array
\* of the record is not written.  Line 146 writes True, that is 1, to err.
remove_cosmic_rays(data_and_errors, cosmics) ==
    [i \in DOMAIN data_and_errors |->
        LET ch == data_and_errors[i]
        IN  [data  |-> ch.data,
             err   |-> [shape |-> ch.err.shape,
                        val   |-> [p \in DOMAIN ch.err.val |->
                                      IF p \in cosmics[i].mask THEN 1 ELSE ch.err.val[p]]],
             index |-> ch.index]]

(***************************************************************************)
(* _get_dusty_array                                                        *)
(***************************************************************************)
DustyRequest == FetchRequest(darts \o "dp/dusty_pixels.sav")

\* dp_data[y_window[0]:y_window[1], x_window[0]:x_window[1]]
get_dusty_array(y_window, x_window) ==
    LET nr == SliceLen(y_window[1], y_window[2], 1024)
        nc == SliceLen(x_window[1], x_window[2], dp_data.width)
    IN  [shape |-> <<nr, nc>>,
         val   |-> [rc \in (0..(nr - 1)) \X (0..(nc - 1)) |->
                       IF <<y_window[1] + rc[1], x_window[1] + rc[2]>> \in dp_data.ones
                       THEN 1 ELSE 0]]

(***************************************************************************)
(* _calibrate_pixels                                                       *)
(***************************************************************************)
\* target[mask] = value, for a 2-D target of shape tshape and a boolean mask
\* of shape mshape that is True at trues: where the assignment lands, or that
\* it raises IndexError.  A mask of another shape than its target raises,
\* except under a numpy that still indexes by the mask's True positions when
\* they all lie inside the target.
MaskAssign(tshape, mshape, trues) ==
    IF mshape = tshape THEN [ok |-> TRUE, at |-> trues]
    ELSE IF build.legacy_mask
            /\ \A rc \in trues : rc[1] < tshape[1] /\ rc[2] < tshape[2]
         THEN [ok |-> TRUE, at |-> trues]
         ELSE [ok |-> FALSE, at |-> {}]

Ones(bitmap) == {rc \in DOMAIN bitmap.val : bitmap.val[rc] = 1}

\* meta['DATE_OBS'][:10] read by strptime(..., "%Y-%m-%d")
strptime_date(s) == CHOOSE d \in AllDates : strftime_Ymd(d) = s

Lower(s) == IF s = "A" THEN "a" ELSE IF s = "B" THEN "b" ELSE s

\* the body of the loop of lines 113-126 for one channel record
calibrate_one(memo, mt, ch) ==
    LET index    == ch.index
        date     == strptime_date(mt.DATE_OBS)
        y_window == <<mt.YWS, mt.YWS + mt.YW>>
        x_window == <<mt.TDETX[index], mt.TDETX[index] + mt.TDETXW[index]>>
        detector == Lower(mt.TWBND[index])
    IN  Eval(get_pixel_map(memo, date, "hp", detector, y_window, x_window), LAMBDA hots :
        Eval(get_pixel_map(hots.memo, date, "wp", detector, y_window, x_window), LAMBDA warms :
        Eval(get_dusty_array(y_window, x_window), LAMBDA dusties :
        Eval(MaskAssign(hots.ret.shape, dusties.shape, Ones(dusties)), LAMBDA dusty :
        Eval(MaskAssign(<<ch.err.shape[2], ch.err.shape[3]>>, hots.ret.shape,
                        Ones(hots.ret) \cup Ones(warms.ret) \cup dusty.at), LAMBDA marked :
            [ch     |-> IF dusty.ok /\ marked.ok
                        THEN [data  |-> ch.data,
                              err   |-> [shape |-> ch.err.shape,
                                         val   |-> [p \in DOMAIN ch.err.val |->
                                                       IF <<p[2], p[3]>> \in marked.at
                                                       THEN missing ELSE ch.err.val[p]]],
                              index |-> ch.index]
                        ELSE ch,
             raised |-> ~(dusty.ok /\ marked.ok),
             memo   |-> warms.memo,
             reqs   |-> hots.reqs \o warms.reqs \o <<DustyRequest>>,
             seen   |-> [hots |-> hots, warms |-> warms, dusties |-> dusties]])))))

RECURSIVE CalibrateFrom(_, _, _, _, _, _)
CalibrateFrom(mt, chs, i, memo, reqs, seen) ==
    IF i > Len(chs)
    THEN [chans |-> chs, memo |-> memo, reqs |-> reqs, raised |-> FALSE, seen |-> seen]
    ELSE Eval(calibrate_one(memo, mt, chs[i]), LAMBDA one :
            IF one.raised
            THEN [chans |-> chs, memo |-> one.memo, reqs |-> reqs \o one.reqs,
                  raised |-> TRUE, seen |-> Append(seen, one.seen)]
            ELSE Eval([chs EXCEPT ![i] = one.ch], LAMBDA done :
                 Eval(reqs \o one.reqs, LAMBDA issued :
                 Eval(Append(seen, one.seen), LAMBDA sofar :
                    CalibrateFrom(mt, done, i + 1, one.memo, issued, sofar)))))

calibrate_pixels(memo, mt, data_and_errors) ==
    CalibrateFrom(mt, data_and_errors, 1, memo, <<>>, <<>>)

(***************************************************************************)
(* The archive's possible contents                                         *)
(***************************************************************************)
Range(f) == {f[i] : i \in DOMAIN f}

\* the listings of an index page: dates of CalDates, none twice, in any order
Listings ==
    {l \in UNION {[1..n -> CalDates] : n \in 0..MaxListing} :
        \A i, j \in DOMAIN l : i # j => l[i] # l[j]}

AllQuadrants == {"top", "bottom", "middle"} \X {"left", "right"}

\* the files of the archive for the given dates and quadrants
FilesOf(dates, quadrants) ==
    {construct_hot_warm_pix_url(d, pt, det, q[1], q[2]) :
        d \in dates, pt \in PixTypes, det \in Detectors, q \in quadrants}

\* dusty_pixels.sav: one map for both CCDs or for one, with a few dusty pixels
DustyMaps ==
    {[width |-> w, ones |-> o] :
        w \in {2048, 4096},
        o \in {{}, {<<0, 1>>, <<0, 1030>>, <<512, 1024>>, <<1023, 2047>>}}}

(***************************************************************************)
(* Calls of the fetcher                                                    *)
(***************************************************************************)
TryDownloadNearestCal(date, pix_type, detector, top_bot, left_right) ==
    /\ Len(calls) < MaxCalls
    /\ \E call \in {try_download_nearest_cal(pix_memo, date, pix_type, detector,
                                              top_bot, left_right)} :
           /\ pix_memo' = call.memo
           /\ requests' = requests \o call.reqs
           /\ calls' = Append(calls,
                  [args |-> <<date, pix_type, detector, top_bot, left_right>>,
                   ret  |-> call.ret,
                   reqs |-> call.reqs,
                   hit  |-> call.hit,
                   pre  |-> pix_memo,
                   post |-> call.memo])
    /\ UNCHANGED <<archive, maps, geom, meta, chans, last>>

\* the history of the stages before any has run
NoStage ==
    [n |-> 0, op |-> "none", pre |-> <<>>, retain |-> FALSE, pedestal_twice |-> <<>>,
     cosmics |-> <<>>, raised |-> FALSE, seen |-> <<>>]

InitIdle ==
    /\ pix_memo = <<>>
    /\ requests = <<>>
    /\ calls = <<>>
    /\ maps = <<>>
    /\ geom = <<>>
    /\ meta = <<>>
    /\ chans = <<>>
    /\ last = NoStage

InitFetch ==
    /\ \E l \in Listings :
          /\ links = [pt \in PixTypes |-> IndexPage(l)]
          /\ \E sd \in SUBSET Range(l) : served = FilesOf(sd, AllQuadrants)
    /\ dp_data = [width |-> 2048, ones |-> {}]
    /\ build = [legacy_mask |-> FALSE]
    /\ InitIdle

NextFetch ==
    \E date \in {<<2008, 1, 18>>, <<2008, 1, 19>>}, pix_type \in PixTypes :
        TryDownloadNearestCal(date, pix_type, "a", "top", "left")

SpecFetch == InitFetch /\ [][NextFetch]_vars

(***************************************************************************)
(* Calls of the resolver                                                   *)
(***************************************************************************)
\* the most calls of the compositor in one run
MaxMaps == 2

\* geom holds the last call of the resolver, which keeps no state
CalculateDetectors(date, y_window_start, n_y_pixels, x_start, x_width) ==
    /\ geom' = <<[date |-> date, y_window_start |-> y_window_start,
                  n_y_pixels |-> n_y_pixels, x_start |-> x_start, x_width |-> x_width,
                  ret |-> calculate_detectors(date, y_window_start, n_y_pixels,
                                              x_start, x_width)]>>
    /\ UNCHANGED <<archive, pix_memo, requests, calls, maps, meta, chans, last>>

InitResolve ==
    /\ links = [pt \in PixTypes |-> IndexPage(<<>>)]
    /\ served = {}
    /\ dp_data = [width |-> 2048, ones |-> {}]
    /\ build = [legacy_mask |-> FALSE]
    /\ InitIdle

\* (start, extent) of the Y windows and of the X windows handed to the
\* resolver: around row 512 and column 1024, and the windows of the examples
YCases == {<<0, 100>>, <<400, 112>>, <<400, 113>>, <<400, 300>>, <<400, 700>>,
           <<511, 1>>, <<511, 2>>, <<512, 1>>, <<600, 100>>, <<600, 700>>}

XCases == {<<0, 100>>, <<0, 1024>>, <<900, 123>>, <<900, 124>>, <<900, 125>>,
           <<900, 300>>, <<900, 1200>>, <<1023, 1>>, <<1024, 1>>, <<1200, 100>>,
           <<1200, 1300>>}

NextResolve ==
    \E date \in {<<2008, 1, 10>>, <<2008, 1, 18>>, <<2008, 1, 19>>, <<2015, 1, 1>>},
       y \in YCases, x \in XCases :
        CalculateDetectors(date, y[1], y[2], x[1], x[2])

SpecResolve == InitResolve /\ [][NextResolve]_vars

(***************************************************************************)
(* Calls of the compositor                                                 *)
(***************************************************************************)
GetPixelMap(date, pix_type, detector, y_window, x_window) ==
    /\ Len(maps) < MaxMaps
    /\ \E call \in {get_pixel_map(pix_memo, date, pix_type, detector, y_window, x_window)} :
           /\ pix_memo' = call.memo
           /\ requests' = requests \o call.reqs
           /\ maps' = Append(maps,
                  [date |-> date, pix_type |-> pix_type, detector |-> detector,
                   y_window |-> y_window, x_window |-> x_window,
                   areas |-> call.areas, arrays |-> call.arrays,
                   glued |-> call.glued, ret |-> call.ret])
    /\ UNCHANGED <<archive, calls, geom, meta, chans, last>>

\* Y windows and X windows of an observation: at the edges and the midlines of
\* the canvas, on either CCD, and one window as wide as a CCD half
YWindows == {<<0, 2>>, <<511, 513>>, <<512, 514>>, <<1022, 1024>>}

XWindows == {<<0, 2>>, <<1022, 1024>>, <<1023, 1025>>, <<1024, 1026>>, <<2046, 2048>>,
             <<2047, 2049>>, <<2048, 2050>>, <<3071, 3073>>, <<4094, 4096>>,
             <<1024, 2048>>}

\* archives for the compositor: one listing, all of its files or all but those
\* of the top right quadrant
InitMap ==
    /\ \E l \in {<<<<2008, 1, 17>>>>, <<<<2008, 1, 17>>, <<2008, 1, 21>>>>} :
          /\ links = [pt \in PixTypes |-> IndexPage(l)]
          /\ \E q \in {AllQuadrants, AllQuadrants \ {<<"top", "right">>}} :
                served = FilesOf(Range(l), q)
    /\ dp_data = [width |-> 2048, ones |-> {}]
    /\ build = [legacy_mask |-> FALSE]
    /\ InitIdle

NextMap ==
    \E date \in {<<2008, 1, 18>>, <<2008, 1, 19>>}, pix_type \in PixTypes,
       y_window \in YWindows, x_window \in XWindows :
        GetPixelMap(date, pix_type, "a", y_window, x_window)

SpecMap == InitMap /\ [][NextMap]_vars

(***************************************************************************)
(* The stages                                                              *)
(***************************************************************************)
\* the most stages run on one exposure
MaxStages == 2

RemoveZerosSaturated ==
    /\ last.n < MaxStages
    /\ chans' = remove_zeros_saturated(chans)
    /\ last' = [NoStage EXCEPT !.n = last.n + 1, !.op = "remove_zeros_saturated",
                                !.pre = chans]
    /\ UNCHANGED <<archive, pix_memo, requests, calls, maps, geom, meta>>

\* The counts of the model are whole numbers: the stage is run where the
\* pedestal is one.
RemoveDarkCurrent(retain) ==
    /\ last.n < MaxStages
    /\ \A i \in DOMAIN chans : pedestal_twice(meta, chans[i]) % 2 = 0
    /\ chans' = remove_dark_current(meta, chans, retain)
    /\ last' = [NoStage EXCEPT !.n = last.n + 1, !.op = "remove_dark_current",
                                !.pre = chans, !.retain = retain,
                                !.pedestal_twice =
                                    [i \in DOMAIN chans |-> pedestal_twice(meta, chans[i])]]
    /\ UNCHANGED <<archive, pix_memo, requests, calls, maps, geom, meta>>

CalibratePixels ==
    /\ last.n < MaxStages
    /\ \E run \in {calibrate_pixels(pix_memo, meta, chans)} :
           /\ chans' = run.chans
           /\ pix_memo' = run.memo
           /\ requests' = requests \o run.reqs
           /\ last' = [NoStage EXCEPT !.n = last.n + 1, !.op = "calibrate_pixels",
                                       !.pre = chans, !.raised = run.raised,
                                       !.seen = run.seen]
    /\ UNCHANGED <<archive, calls, maps, geom, meta>>

\* what detect_cosmics may answer for a channel: it flags one pixel of the
\* first slice, or that one and one of the last slice, and gives them the value v
CosmicAnswers(ch, v) ==
    {[mask  |-> m,
      clean |-> [p \in DOMAIN ch.data.val |-> IF p \in m THEN v ELSE ch.data.val[p]]] :
        m \in {{<<0, 0, 0>>},
               {<<0, 0, 0>>, <<ch.data.shape[1] - 1, ch.data.shape[2] - 1, 7>>}}}

RemoveCosmicRays ==
    /\ last.n < MaxStages
    /\ \E cosmics \in [DOMAIN chans -> UNION {CosmicAnswers(chans[i], 100) : i \in DOMAIN chans}] :
          /\ \A i \in DOMAIN chans : cosmics[i] \in CosmicAnswers(chans[i], 100)
          /\ chans' = remove_cosmic_rays(chans, cosmics)
          /\ last' = [NoStage EXCEPT !.n = last.n + 1, !.op = "remove_cosmic_rays",
                                      !.pre = chans, !.cosmics = cosmics]
    /\ UNCHANGED <<archive, pix_memo, requests, calls, maps, geom, meta>>

\* the windows of the observations: [shape, YWS, TDETX, split]; the X width
\* is the number of columns of the arrays, the Y height their number of rows,
\* and split the column where the raw counts step up, which lies inside the
\* quiet columns of the window
Windows ==
    {[shape |-> <<1, 1, 1024>>, YWS |-> 0, TDETX |-> 0, split |-> 61],
     [shape |-> <<1, 1, 1024>>, YWS |-> 0, TDETX |-> 1024, split |-> 950],
     [shape |-> <<1, 1, 1024>>, YWS |-> 0, TDETX |-> 3072, split |-> 950],
     [shape |-> <<3, 2, 25>>, YWS |-> 511, TDETX |-> 1010, split |-> 20],
     [shape |-> <<3, 2, 25>>, YWS |-> 511, TDETX |-> 2040, split |-> 20]}

\* raw counts: 100 left of column split and 120 from it on, and in the first
\* row of the first exposure a negative, a zero, a saturated and an
\* over-range pixel, and pixels one count from each level
RawData(shape, split) ==
    [shape |-> shape,
     val   |-> [p \in Coords(shape) |->
                   IF p[1] = 0 /\ p[2] = 0 /\ p[3] < 8
                   THEN <<50, -5, 0, 16382, 16383, 20000, 99, 101>>[p[3] + 1]
                   ELSE IF p[3] < split THEN 100 ELSE 120]]

\* np.zeros(data.shape)
ZeroErr(shape) == [shape |-> shape, val |-> [p \in Coords(shape) |-> 0]]

Init ==
    /\ links = [pt \in PixTypes |-> IndexPage(<<<<2008, 1, 17>>>>)]
    /\ served = FilesOf({<<2008, 1, 17>>}, AllQuadrants)
    /\ dp_data \in {d \in DustyMaps : d.ones # {}}
    /\ build \in [legacy_mask : BOOLEAN]
    /\ pix_memo = <<>>
    /\ requests = <<>>
    /\ calls = <<>>
    /\ maps = <<>>
    /\ geom = <<>>
    /\ last = NoStage
    /\ \E w \in Windows, date \in {<<2008, 1, 19>>} :
          /\ meta = [DATE_OBS |-> strftime_Ymd(date), YWS |-> w.YWS, YW |-> w.shape[2],
                     TDETX |-> <<w.TDETX>>, TDETXW |-> <<w.shape[3]>>, TWBND |-> <<"A">>]
          /\ chans = <<[data  |-> RawData(w.shape, w.split),
                        err   |-> ZeroErr(w.shape),
                        index |-> 1]>>

Next ==
    \/ RemoveZerosSaturated
    \/ \E retain \in BOOLEAN : RemoveDarkCurrent(retain)
    \/ CalibratePixels
    \/ RemoveCosmicRays

Spec == Init /\ [][Next]_vars

(***************************************************************************)
(* Claims about the fetcher                                                *)
(***************************************************************************)
SameArgs(i) == calls[i].args = calls[i + 1].args

UrlOfCall(c, d) == construct_hot_warm_pix_url(d, c.args[2], c.args[3], c.args[4], c.args[5])

\* C4 as stated: two successive calls with identical arguments issue exactly
\* one network request together, the second call issues none, and the second
\* call returns what the first returned.
C4_OneRequestForTwoCalls ==
    \A i \in 1..(Len(calls) - 1) :
        SameArgs(i) =>
            /\ Len(calls[i].reqs) + Len(calls[i + 1].reqs) = 1
            /\ calls[i + 1].reqs = <<>>
            /\ calls[i + 1].ret = calls[i].ret

\* C4 amended: when the first of two successive calls with identical arguments
\* returns a bitmap, the second call issues no network request and returns the
\* same bitmap; the requests of the two calls together are those of the first
\* call alone, which on a cache miss are at least three: the index request
\* first, and last the probe and the download of the file that answered.
\* When the first call returns absent, the second repeats its requests and
\* returns absent too.
C4_SecondCallFromMemo ==
    \A i \in 1..(Len(calls) - 1) :
        SameArgs(i) =>
            IF calls[i].ret # None
            THEN /\ calls[i + 1].reqs = <<>>
                 /\ calls[i + 1].ret = calls[i].ret
                 /\ calls[i].hit \/
                      LET r == calls[i].reqs
                      IN  /\ Len(r) >= 3
                          /\ r[1] = IndexRequest(calls[i].args[2])
                          /\ r[Len(r)].op = "urlretrieve"
                          /\ r[Len(r) - 1] = ProbeRequest(r[Len(r)].url)
            ELSE /\ calls[i + 1].reqs = calls[i].reqs
                 /\ calls[i + 1].ret = None
                 /\ calls[i].reqs[1] = IndexRequest(calls[i].args[2])

\* two successive identical calls, the first a cache miss that found a bitmap
C4_Witness ==
    \E i \in 1..(Len(calls) - 1) :
        SameArgs(i) /\ ~calls[i].hit /\ calls[i].ret # None /\ calls[i + 1].hit

\* the listing of the archive as the call read it, and a date's place in it
ListingOf(c) == get_cal_dates(c.args[2])

PlaceIn(l, d) == CHOOSE i \in DOMAIN l : l[i] = d

\* the probes of a call: its urlopen requests other than the index request
ProbesOf(c) ==
    SelectSeq(c.reqs, LAMBDA r : r.op = "urlopen" /\ r # IndexRequest(c.args[2]))

\* the listed date a probe asks for
DateOfProbe(c, r) == CHOOSE d \in Range(ListingOf(c)) : UrlOfCall(c, d) = r.url

\* d1 is probed before d2: it is nearer to the requested date, or as near and
\* listed earlier
Nearer(c, d1, d2) ==
    \/ SortKey(d1, c.args[1]) < SortKey(d2, c.args[1])
    \/ /\ SortKey(d1, c.args[1]) = SortKey(d2, c.args[1])
       /\ PlaceIn(ListingOf(c), d1) < PlaceIn(ListingOf(c), d2)

\* the probes of call c are listed dates in order of increasing distance, ties
\* in listing order, with no nearer date skipped; every probe but the last
\* failed; and the call ends as the last probe decides
ProbesInOrder(c, probes) ==
    LET n == Len(probes)
        P == [i \in 1..n |-> DateOfProbe(c, probes[i])]
    IN  /\ \A i \in 1..n : probes[i].url \in {UrlOfCall(c, d) : d \in Range(ListingOf(c))}
        /\ \A i, j \in 1..n : i < j => Nearer(c, P[i], P[j])
        /\ \A d \in Range(ListingOf(c)) \ Range(P) : \A i \in 1..n : Nearer(c, P[i], d)
        /\ \A i \in 1..(n - 1) : probes[i].url \notin served
        /\ IF n > 0 /\ probes[n].url \in served
           THEN /\ c.reqs[Len(c.reqs)] = FetchRequest(probes[n].url)
                /\ c.ret = ccd_data(P[n])
                /\ c.post = [k \in DOMAIN c.pre \cup {UrlOfCall(c, c.args[1])} |->
                                IF k = UrlOfCall(c, c.args[1]) THEN c.ret ELSE c.pre[k]]
           ELSE /\ Range(P) = Range(ListingOf(c))
                /\ \A i \in 1..Len(c.reqs) : c.reqs[i].op # "urlretrieve"
                /\ c.ret = None
                /\ c.post = c.pre

OnOrBeforeCutoff(date) ==
    \/ date[1] < 2008
    \/ date[1] = 2008 /\ date[2] = 1 /\ date[3] <= 18

ResolvedAs(date, y, ny, x, nx, labels) ==
    \A i \in 1..Len(geom) :
        (/\ geom[i].date = date
         /\ geom[i].y_window_start = y /\ geom[i].n_y_pixels = ny
         /\ geom[i].x_start = x /\ geom[i].x_width = nx) => geom[i].ret = labels

\* C8: the resolver returns (vertical, horizontal): vertical is middle for a
\* date on or before 2008-01-18, else top when the Y start is >= 512, else
\* bottom when Y start + Y extent <= 512, else both; horizontal is right when
\* the X start is >= 1024, else left when X start + X extent < 1024, else
\* both.  The three examples of the specification resolve as it says, their
\* pairs read as (start, extent) or as (start, end).
C8_ResolverLabels ==
    /\ \A i \in 1..Len(geom) :
          LET g == geom[i]
              y_end == g.y_window_start + g.n_y_pixels
              x_end == g.x_start + g.x_width
          IN  /\ OnOrBeforeCutoff(g.date) => g.ret[1] = "middle"
              /\ ~OnOrBeforeCutoff(g.date) =>
                    /\ g.y_window_start >= 512 => g.ret[1] = "top"
                    /\ (g.y_window_start < 512 /\ y_end <= 512) => g.ret[1] = "bottom"
                    /\ (g.y_window_start < 512 /\ y_end > 512) => g.ret[1] = "both"
              /\ g.x_start >= 1024 => g.ret[2] = "right"
              /\ (g.x_start < 1024 /\ x_end < 1024) => g.ret[2] = "left"
              /\ (g.x_start < 1024 /\ x_end >= 1024) => g.ret[2] = "both"
    /\ ResolvedAs(<<2008, 1, 10>>, 0, 100, 0, 100, <<"middle", "left">>)
    /\ ResolvedAs(<<2015, 1, 1>>, 600, 700, 1200, 1300, <<"top", "right">>)
    /\ ResolvedAs(<<2015, 1, 1>>, 600, 100, 1200, 100, <<"top", "right">>)
    /\ ResolvedAs(<<2015, 1, 1>>, 400, 700, 900, 1200, <<"both", "both">>)
    /\ ResolvedAs(<<2015, 1, 1>>, 400, 300, 900, 300, <<"both", "both">>)

\* the resolver has been called on a window that ends on column 1024 and on
\* row 512, after the cutoff
C8_Witness ==
    \E i \in 1..Len(geom) :
        /\ geom[i].date = <<2015, 1, 1>>
        /\ geom[i].y_window_start + geom[i].n_y_pixels = 512
        /\ geom[i].x_start + geom[i].x_width = 1024
        /\ geom[i].ret = <<"bottom", "both">>

(***************************************************************************)
(* Claims about the compositor                                             *)
(***************************************************************************)
\* C3: for a window with 0 <= y0 < y1 <= 1024 and an X range [x0, x1) of
\* width 1..1024, the returned bitmap has y1 - y0 rows and x1 - x0 columns and
\* its entry (r, c) is the canvas entry at row y0 + r, column (x0 + c) mod 2048.
C3_CropIsTheWindow ==
    \A i \in 1..Len(maps) :
        LET m  == maps[i]
            y0 == m.y_window[1]
            y1 == m.y_window[2]
            x0 == m.x_window[1]
            x1 == m.x_window[2]
        IN  (0 <= y0 /\ y0 < y1 /\ y1 <= 1024 /\ x1 - x0 >= 1 /\ x1 - x0 <= 1024) =>
              /\ m.ret.shape = <<y1 - y0, x1 - x0>>
              /\ \A r \in 0..(y1 - y0 - 1), c \in 0..(x1 - x0 - 1) :
                    m.ret.val[<<r, c>>] = CanvasAt(m.glued, y0 + r, (x0 + c) % 2048)

CanvasQuadrants == {"topleft", "topright", "bottomleft", "bottomright"}

\* the quadrant of the canvas that holds entry (r, c) of the bitmap returned by call m
QuadrantOfEntry(m, r, c) ==
    (IF m.y_window[1] + r < 512 THEN "top" ELSE "bottom")
      \o (IF (m.x_window[1] % 2048) + c < 1024 THEN "left" ELSE "right")

\* C6: a quadrant whose fetch returned absent holds 0 at every pixel of the
\* canvas, and the returned bitmap shows no defect in the part of the window
\* that lies in that quadrant.
C6_AbsentTileIsZero ==
    \A i \in 1..Len(maps) :
        LET m == maps[i]
        IN  \A q \in CanvasQuadrants \cap DOMAIN m.arrays :
              m.arrays[q] = None =>
                /\ m.glued[q] = zero_arr
                /\ \A rc \in DOMAIN m.ret.val :
                      QuadrantOfEntry(m, rc[1], rc[2]) = q => m.ret.val[rc] # 1

\* C10: whenever a tile the compositor fetched holds a defect pixel, the
\* canvas it assembles is not all-zero.
C10_FetchedTilesArePlaced ==
    \A i \in 1..Len(maps) :
        LET m == maps[i]
        IN  (\E k \in DOMAIN m.arrays : m.arrays[k] # None /\ m.arrays[k].ones # {}) =>
              (\E q \in CanvasQuadrants : m.glued[q] # zero_arr)

(***************************************************************************)
(* Claims about the stages                                                 *)
(***************************************************************************)
\* C1: after the invalid-pixel stage, every pixel of every channel record
\* whose value before the stage was <= 0 or >= 16383 has data 0 and error
\* MISSING (-100).
C1_InvalidPixelsZeroedAndMissing ==
    last.op = "remove_zeros_saturated" =>
        \A i \in DOMAIN chans :
            \A p \in DOMAIN last.pre[i].data.val :
                (last.pre[i].data.val[p] <= 0 \/ last.pre[i].data.val[p] >= 16383) =>
                    /\ chans[i].data.val[p] = 0
                    /\ chans[i].err.val[p] = missing

\* the invalid-pixel stage has run on a record that held a negative, a zero, a
\* just-saturated and an over-range pixel, and a pixel one count under
\* saturation, which it kept
C1_Witness ==
    /\ last.op = "remove_zeros_saturated"
    /\ \A v \in {-5, 0, 16383, 20000} :
          \E p \in DOMAIN last.pre[1].data.val :
              /\ last.pre[1].data.val[p] = v
              /\ chans[1].data.val[p] = 0
              /\ chans[1].err.val[p] = missing
    /\ \E p \in DOMAIN last.pre[1].data.val :
          /\ last.pre[1].data.val[p] = 16382
          /\ chans[1].data.val[p] = 16382
          /\ chans[1].err.val[p] = 0

\* C2 as stated: after the cosmic-ray stage the data array of the channel
\* record equals the stack of cleaned slices the detection returned, error is
\* MISSING wherever a slice's defect mask is set, and error holds no value
\* other than 0 or MISSING.
C2_CleanedDataAndMissingErr ==
    last.op = "remove_cosmic_rays" =>
        \A i \in DOMAIN chans :
            /\ chans[i].data.val = last.cosmics[i].clean
            /\ \A p \in last.cosmics[i].mask : chans[i].err.val[p] = missing
            /\ \A p \in DOMAIN chans[i].err.val : chans[i].err.val[p] \in {0, missing}

\* C7 as stated: without retain, the dark-current stage sets data to 0 and
\* error to MISSING at exactly the pixels whose value after the subtraction
\* is < 0, and a pixel whose value after the subtraction is >= 0 keeps that
\* value and its error; with retain no pixel is clamped and error is unchanged.
C7_ClampsExactlyNegatives ==
    last.op = "remove_dark_current" =>
        \A i \in DOMAIN chans :
            \A p \in DOMAIN last.pre[i].data.val :
                LET subtracted == last.pre[i].data.val[p] - (last.pedestal_twice[i] \div 2)
                IN  IF ~last.retain /\ subtracted < 0
                    THEN /\ chans[i].data.val[p] = 0
                         /\ chans[i].err.val[p] = missing
                    ELSE /\ chans[i].data.val[p] = subtracted
                         /\ chans[i].err.val[p] = last.pre[i].err.val[p]

\* (row, column) of the window of channel i is set in the hot, the warm or the
\* dusty bitmap of that window: the canvases addressed modulo their width, the
\* dusty map at the window's own rows and columns
InDefectBitmaps(i, r, c) ==
    LET y0 == meta.YWS
        x0 == meta.TDETX[chans[i].index]
    IN  \/ CanvasAt(last.seen[i].hots.glued, y0 + r, (x0 + c) % 2048) = 1
        \/ CanvasAt(last.seen[i].warms.glued, y0 + r, (x0 + c) % 2048) = 1
        \/ <<y0 + r, x0 + c>> \in dp_data.ones

\* C9 as stated: after the pixel-defect stage, for each channel record, error
\* is MISSING at every (exposure, row, column) whose (row, column) is set in
\* the hot, warm or dusty bitmap of the channel's window, error is unchanged
\* everywhere else, and data is not modified.
C9_DefectsMarkedMissing ==
    last.op = "calibrate_pixels" =>
        \A i \in DOMAIN chans :
            /\ chans[i].data = last.pre[i].data
            /\ \A p \in DOMAIN chans[i].err.val :
                  chans[i].err.val[p] = IF InDefectBitmaps(i, p[2], p[3])
                                        THEN missing
                                        ELSE last.pre[i].err.val[p]

====
